---- MODULE Spec2Model ----
(***************************************************************************)
(* Verification model of two components of NeMo's NLP collection:          *)
(*                                                                         *)
(*   - SchemaPreprocessor (sgd_dataset/schema_processor.py): the schema    *)
(*     embedding cache builder run by every process of a training group,   *)
(*     and its loader get_schema_embeddings;                               *)
(*   - eval_iter_callback / eval_epochs_done_callback                      *)
(*     (callbacks/punctuation_capitalization_callback.py): the evaluation  *)
(*     accumulator of the punctuation / capitalization model.              *)
(*                                                                         *)
(* Spec     : the processes of a group construct SchemaPreprocessor        *)
(*            concurrently over a shared file system and then load.        *)
(* FairSpec : Spec with weak fairness of every process's constructor.      *)
(* EvalSpec : a caller feeds batches to the evaluation callbacks.          *)
(***************************************************************************)
EXTENDS Integers, Sequences, FiniteSets, TLC

VARIABLES
    is_initialized,             \* torch.distributed.is_initialized()
    overwrite_schema_emb_files, \* constructor argument
    datasets,                   \* constructor argument: the listed splits
    fs,                         \* the file system: path -> NoFile or a file
    pc,                         \* per process: position in __init__
    idx,                        \* per process: position of the for loop in datasets
    builder,                    \* per process and split: the builder's state
    ret,                        \* per process: outcome of the last get_schema_embeddings
    global_vars,                \* the evaluation state (a dict)
    results,                    \* what the last evaluation call returned or raised
    lastCall,                   \* the last evaluation call made by the caller
    fed,                        \* history: the positions fed since global_vars was created
    fed_sents                   \* history: the partial-sentence rows fed since then

schemaVars == <<is_initialized, overwrite_schema_emb_files, datasets, fs, pc, idx, builder, ret>>
evalVars == <<global_vars, results, lastCall, fed, fed_sents>>
vars == <<schemaVars, evalVars>>

-----------------------------------------------------------------------------
(* Bounds *)

NProcs == 2
MaxServices == 2
MaxBatch == 2
MaxFed == 3

-----------------------------------------------------------------------------
(* Schema embedding cache builder *)

Procs == 0 .. (NProcs - 1)

\* torch.distributed.get_rank(): processes are named by their rank
get_rank(p) == p

Splits == {"train", "dev"}

\* the lists of splits a caller passes: every duplicate-free list over Splits
DatasetLists ==
    {l \in UNION {[1 .. n -> Splits] : n \in 0 .. Cardinality(Splits)} :
        \A i, j \in DOMAIN l : l[i] = l[j] => i = j}

\* number of services of <data_dir>/<split>/schema.json
NumServices(dataset_split) == IF dataset_split = "train" THEN MaxServices ELSE 1

EmbKinds == {"cat_slot_emb", "cat_slot_value_emb", "noncat_slot_emb", "req_slot_emb", "intent_emb"}

schema_embedding_dir == "emb"

os_path_join(a, b) == a \o "/" \o b

_get_schema_embedding_file_name(dataset_split) ==
    os_path_join(schema_embedding_dir, dataset_split \o "_pretrained_schema_embedding.npy")

Paths == {_get_schema_embedding_file_name(s) : s \in Splits}

\* gen counts how many times the path was written (0: never)
NoFile == [exists |-> FALSE, gen |-> 0, records |-> <<>>]

os_path_exists(path) == fs[path].exists

\* the array of one embedding kind of one service, named by what it embeds
EmbeddingArray(dataset_split, service, kind) == <<dataset_split, service, kind>>

\* the record save_embeddings builds for one service: five named arrays
ServiceRecord(dataset_split, service) ==
    [k \in EmbKinds |-> EmbeddingArray(dataset_split, service, k)]

\* mutant: the file is left with the records of all services but the last
save_embeddings_Partial(dataset_split, path) ==
    [fs EXCEPT ![path] =
        [exists |-> TRUE,
         gen |-> fs[path].gen + 1,
         records |-> [i \in 1 .. (NumServices(dataset_split) - 1) |-> ServiceRecord(dataset_split, i)]]]

\* emb_datalayer.dataset.save_embeddings(hidden_states, schema_embedding_file):
\* persists one record per service of the split's schema to the path
save_embeddings(dataset_split, path) ==
    [fs EXCEPT ![path] =
        [exists |-> TRUE,
         gen |-> fs[path].gen + 1,
         records |-> [i \in 1 .. NumServices(dataset_split) |-> ServiceRecord(dataset_split, i)]]]

\* a file left by an earlier run over the same schema
PriorFile(dataset_split) ==
    [exists |-> TRUE,
     gen |-> 1,
     records |-> [i \in 1 .. NumServices(dataset_split) |-> ServiceRecord(dataset_split, i)]]

master_device(p) == ~is_initialized \/ get_rank(p) = 0

\* mutant: the overwrite flag is ignored
NeedGenerate_NoOverwrite(p, dataset_split) ==
    master_device(p) /\ ~os_path_exists(_get_schema_embedding_file_name(dataset_split))

\* mutant: the existence of the file is not consulted
NeedGenerate_NoExistsCheck(p, dataset_split) ==
    master_device(p) \/ overwrite_schema_emb_files

\* line 74; `and` binds tighter than `or`
NeedGenerate(p, dataset_split) ==
    (master_device(p) /\ ~os_path_exists(_get_schema_embedding_file_name(dataset_split)))
        \/ overwrite_schema_emb_files

NoRet == [raised |-> "", msg |-> "", split |-> "", data |-> <<>>]

InitSchema ==
    /\ is_initialized \in BOOLEAN
    /\ overwrite_schema_emb_files \in BOOLEAN
    /\ datasets \in DatasetLists
    /\ \E present \in SUBSET Splits :
        fs = [path \in Paths |->
                IF \E s \in present : path = _get_schema_embedding_file_name(s)
                THEN PriorFile(CHOOSE s \in present : path = _get_schema_embedding_file_name(s))
                ELSE NoFile]
    /\ pc = [p \in Procs |-> "loop"]
    /\ idx = [p \in Procs |-> 1]
    /\ builder = [p \in Procs |-> [s \in Splits |-> "UNCHECKED"]]
    /\ ret = [p \in Procs |-> NoRet]

\* lines 69-75: the head of the for loop and the decision for one split
InitCheckSplit(p) ==
    /\ pc[p] = "loop"
    /\ idx[p] <= Len(datasets)
    /\ LET dataset_split == datasets[idx[p]]
       IN IF NeedGenerate(p, dataset_split)
          THEN /\ pc' = [pc EXCEPT ![p] = "generating"]
               /\ builder' = [builder EXCEPT ![p][dataset_split] = "GENERATING"]
               /\ idx' = idx
          ELSE /\ pc' = pc
               /\ builder' = [builder EXCEPT ![p][dataset_split] = "SKIP"]
               /\ idx' = [idx EXCEPT ![p] = @ + 1]
    /\ UNCHANGED <<is_initialized, overwrite_schema_emb_files, datasets, fs, ret, evalVars>>

\* lines 77-94: the data layer, the encoder or the inference raises; the
\* exception leaves __init__ and nothing was written for this split
InitGenerateRaises(p) ==
    /\ pc[p] = "generating"
    /\ pc' = [pc EXCEPT ![p] = "failed"]
    /\ UNCHANGED <<is_initialized, overwrite_schema_emb_files, datasets, fs, idx, builder, ret, evalVars>>

\* mutant: the loop does not move on to the next split after saving
InitSaveEmbeddings_NoAdvance(p) ==
    /\ pc[p] = "generating"
    /\ LET dataset_split == datasets[idx[p]]
       IN /\ fs' = save_embeddings(dataset_split, _get_schema_embedding_file_name(dataset_split))
          /\ builder' = [builder EXCEPT ![p][dataset_split] = "WRITTEN"]
    /\ idx' = idx
    /\ pc' = [pc EXCEPT ![p] = "loop"]
    /\ UNCHANGED <<is_initialized, overwrite_schema_emb_files, datasets, ret, evalVars>>

\* lines 77-98: inference succeeds and the records are saved
InitSaveEmbeddings(p) ==
    /\ pc[p] = "generating"
    /\ LET dataset_split == datasets[idx[p]]
       IN /\ fs' = save_embeddings(dataset_split, _get_schema_embedding_file_name(dataset_split))
          /\ builder' = [builder EXCEPT ![p][dataset_split] = "WRITTEN"]
    /\ idx' = [idx EXCEPT ![p] = @ + 1]
    /\ pc' = [pc EXCEPT ![p] = "loop"]
    /\ UNCHANGED <<is_initialized, overwrite_schema_emb_files, datasets, ret, evalVars>>

\* line 69: the list is exhausted, __init__ returns
InitReturn(p) ==
    /\ pc[p] = "loop"
    /\ idx[p] > Len(datasets)
    /\ pc' = [pc EXCEPT ![p] = "constructed"]
    /\ UNCHANGED <<is_initialized, overwrite_schema_emb_files, datasets, fs, idx, builder, ret, evalVars>>

\* collections.defaultdict(list): d[k].append(v)
DictAppend(d, k, v) ==
    IF k \in DOMAIN d THEN [d EXCEPT ![k] = Append(@, v)] ELSE (k :> <<v>>) @@ d

\* lines 113-117: the five appends made for one service
AppendService(d, service) ==
    LET d1 == DictAppend(d, "cat_slot_emb", service["cat_slot_emb"])
        d2 == DictAppend(d1, "cat_slot_value_emb", service["cat_slot_value_emb"])
        d3 == DictAppend(d2, "noncat_slot_emb", service["noncat_slot_emb"])
        d4 == DictAppend(d3, "req_slot_emb", service["req_slot_emb"])
    IN DictAppend(d4, "intent_emb", service["intent_emb"])

\* mutant: the services are visited last to first
RECURSIVE ListToDict_Reversed(_, _)
ListToDict_Reversed(schema_data, n) ==
    IF n = 0
    THEN <<>>
    ELSE AppendService(ListToDict_Reversed(schema_data, n - 1), schema_data[Len(schema_data) + 1 - n])

\* lines 110-119: list of dict to dict of list, over the first n records
RECURSIVE ListToDict(_, _)
ListToDict(schema_data, n) ==
    IF n = 0 THEN <<>> ELSE AppendService(ListToDict(schema_data, n - 1), schema_data[n])

\* mutant: a missing file is not reported, an empty mapping is returned
get_schema_embeddings_result_NoRaise(dataset_split) ==
    LET schema_embedding_file == _get_schema_embedding_file_name(dataset_split)
        schema_data == fs[schema_embedding_file].records
    IN [raised |-> "",
        msg |-> "",
        split |-> dataset_split,
        data |-> ListToDict(schema_data, Len(schema_data))]

\* lines 100-119
get_schema_embeddings_result(dataset_split) ==
    LET schema_embedding_file == _get_schema_embedding_file_name(dataset_split)
    IN IF ~os_path_exists(schema_embedding_file)
       THEN [raised |-> "ValueError",
             msg |-> schema_embedding_file \o " not found.",
             split |-> dataset_split,
             data |-> <<>>]
       ELSE LET schema_data == fs[schema_embedding_file].records
            IN [raised |-> "",
                msg |-> "",
                split |-> dataset_split,
                data |-> ListToDict(schema_data, Len(schema_data))]

get_schema_embeddings(p, dataset_split) ==
    /\ pc[p] = "constructed"
    /\ ret' = [ret EXCEPT ![p] = get_schema_embeddings_result(dataset_split)]
    /\ UNCHANGED <<is_initialized, overwrite_schema_emb_files, datasets, fs, pc, idx, builder, evalVars>>

-----------------------------------------------------------------------------
(* Evaluation accumulator *)

\* sample positions of a batch; subtokens_mask is in tenths (5 is 0.5)
Positions ==
    {[subtokens_mask |-> 0, punct_logits |-> <<1, 3>>, punct_labels |-> 1,
      capit_logits |-> <<3, 1>>, capit_labels |-> 0],
     [subtokens_mask |-> 5, punct_logits |-> <<1, 3>>, punct_labels |-> 1,
      capit_logits |-> <<1, 3>>, capit_labels |-> 1],
     [subtokens_mask |-> 10, punct_logits |-> <<3, 1>>, punct_labels |-> 0,
      capit_logits |-> <<1, 3>>, capit_labels |-> 1],
     [subtokens_mask |-> 6, punct_logits |-> <<2, 2>>, punct_labels |-> 1,
      capit_logits |-> <<1, 3>>, capit_labels |-> 0]}

\* sample rows of the partial-sentence output: one per sentence
Sents ==
    {[part_sent_logits |-> <<3, 1>>, part_sent_labels |-> 0],
     [part_sent_logits |-> <<1, 3>>, part_sent_labels |-> 0]}

SeqsUpTo(S, lo, hi) == UNION {[1 .. n -> S] : n \in lo .. hi}

\* what the evaluator passes as `tensors`: each key is "<name>~~~<id>" (here
\* the parts around the separator) or a plain key, each value a list of
\* tensors; `cut` is the number of rows of the first tensor of each list
TensorsOf(rows, cut, sents) ==
    LET Col(f) == <<[i \in 1 .. cut |-> rows[i][f]],
                    [i \in 1 .. (Len(rows) - cut) |-> rows[cut + i][f]]>>
        Tagged(f) == <<f, "id">> :> (IF cut = Len(rows) THEN <<Col(f)[1]>> ELSE Col(f))
        SentCol(f) == <<f, "id">> :> <<[i \in 1 .. Len(sents) |-> sents[i][f]]>>
        base == Tagged("subtokens_mask") @@ Tagged("punct_logits") @@ Tagged("punct_labels")
                    @@ Tagged("capit_logits") @@ Tagged("capit_labels")
                    @@ (<<"IS_FROM_DIST_EVAL">> :> <<>>)
    IN IF sents = <<>>
       THEN base
       ELSE base @@ SentCol("part_sent_logits") @@ SentCol("part_sent_labels")

\* torch.cat(v): the tensors of the list, one after the other
RECURSIVE torch_cat(_)
torch_cat(v) == IF v = <<>> THEN <<>> ELSE Head(v) \o torch_cat(Tail(v))

\* torch.argmax over the last axis: the (0-based) index of the first maximum
torch_argmax(logits) ==
    (CHOOSE i \in DOMAIN logits :
        /\ \A j \in DOMAIN logits : logits[j] <= logits[i]
        /\ \A j \in DOMAIN logits : logits[j] = logits[i] => i <= j) - 1

Argmax(t) == [i \in DOMAIN t |-> torch_argmax(t[i])]

\* mutant: the mask is ignored
MaskSelect_All(t, mask, n) == SubSeq(t, 1, n)

\* t[mask] for a boolean mask, over the first n positions: the entries of t
\* where the mask is true, in position order
RECURSIVE MaskSelect(_, _, _)
MaskSelect(t, mask, n) ==
    IF n = 0 THEN <<>>
    ELSE IF mask[n] THEN Append(MaskSelect(t, mask, n - 1), t[n])
    ELSE MaskSelect(t, mask, n - 1)

\* lines 27-41: a key that is missing is created with an empty list
SetDefault(d, keys) == [k \in DOMAIN d \cup keys |-> IF k \in DOMAIN d THEN d[k] ELSE <<>>]

Extend(d, k, l) == [d EXCEPT ![k] = @ \o l]

\* lines 43-47: the tensors whose key has the separator, concatenated
Output(tensors) ==
    LET named == {k \in DOMAIN tensors : Len(k) > 1}
    IN [name \in {k[1] : k \in named} |->
            torch_cat(tensors[CHOOSE k \in named : k[1] = name])]

\* mutant: the partial-sentence entries go to the punctuation buffers
WithPartSent_Shared(g, output) ==
    IF "part_sent_logits" \in DOMAIN output
    THEN LET g1 == IF "part_sent_preds" \notin DOMAIN g
                   THEN SetDefault(g, {"part_sent_preds", "part_sent_labels"})
                   ELSE g
             g2 == Extend(g1, "punct_preds", Argmax(output["part_sent_logits"]))
         IN Extend(g2, "punct_labels", output["part_sent_labels"])
    ELSE g

\* lines 55-60
WithPartSent(g, output) ==
    IF "part_sent_logits" \in DOMAIN output
    THEN LET g1 == IF "part_sent_preds" \notin DOMAIN g
                   THEN SetDefault(g, {"part_sent_preds", "part_sent_labels"})
                   ELSE g
             g2 == Extend(g1, "part_sent_preds", Argmax(output["part_sent_logits"]))
         IN Extend(g2, "part_sent_labels", output["part_sent_labels"])
    ELSE g

\* lines 26-60: global_vars after eval_iter_callback(tensors, global_vars)
IterUpdate(g, tensors) ==
    LET g0 == SetDefault(g, {"punct_all_preds", "punct_all_labels", "capit_all_preds",
                             "capit_all_labels", "all_subtokens_mask",
                             "punct_labels", "capit_labels", "punct_preds", "capit_preds"})
        output == Output(tensors)
        n == Len(output["subtokens_mask"])
        subtokens_mask == [i \in 1 .. n |-> output["subtokens_mask"][i] > 5]
        g1 == Extend(g0, "punct_preds", MaskSelect(Argmax(output["punct_logits"]), subtokens_mask, n))
        g2 == Extend(g1, "capit_preds", MaskSelect(Argmax(output["capit_logits"]), subtokens_mask, n))
        g3 == Extend(g2, "punct_labels", MaskSelect(output["punct_labels"], subtokens_mask, n))
        g4 == Extend(g3, "capit_labels", MaskSelect(output["capit_labels"], subtokens_mask, n))
    IN WithPartSent(g4, output)

NoResults == [raised |-> "", dict |-> <<>>]

eval_iter_callback(tensors) ==
    /\ global_vars' = IterUpdate(global_vars, tensors)
    /\ results' = NoResults
    /\ lastCall' = "eval_iter_callback"

\* the evaluator feeds one batch: `rows` positions in tensors cut after `cut`
\* rows, with the partial-sentence rows `sents` (none: the model has no
\* partial-sentence output)
FeedBatch(rows, cut, sents) ==
    /\ Len(fed) + Len(rows) <= MaxFed
    /\ eval_iter_callback(TensorsOf(rows, cut, sents))
    /\ fed' = fed \o rows
    /\ fed_sents' = fed_sents \o sents
    /\ UNCHANGED schemaVars

\* the label vocabularies passed to eval_epochs_done_callback
punct_label_ids == [name \in {"O", ","} |-> IF name = "O" THEN 0 ELSE 1]
capit_label_ids == [name \in {"O", "U"} |-> IF name = "O" THEN 0 ELSE 1]
part_sent_label_ids == [name \in {"full", "part"} |-> IF name = "full" THEN 0 ELSE 1]

\* a label of the classification report, "<name> (label id: <id>)", as the
\* sequence of its pieces
ReportLabel(name, id) == <<name, " ", "(label id", ": ", id, ")">>

\* x * 100 rounded to two decimals, as hundredths of a percent, for x = num / den
\* (0 when the denominator is 0, as the report gives it)
RoundPct(num, den) == IF den = 0 THEN 0 ELSE (20000 * num + den) \div (2 * den)

Count(S) == Cardinality(S)

\* get_classification_report(labels, preds, label_ids, output_dict=True):
\* the precision, recall and F1 of each class of the vocabulary, as the
\* pairs <<numerator, denominator>>
get_classification_report(labels, preds, label_ids) ==
    LET I == DOMAIN labels
        Row(c) ==
            LET tp == Count({i \in I : preds[i] = c /\ labels[i] = c})
                fp == Count({i \in I : preds[i] = c /\ labels[i] # c})
                fn == Count({i \in I : preds[i] # c /\ labels[i] = c})
            IN [precision |-> <<tp, tp + fp>>,
                recall |-> <<tp, tp + fn>>,
                f1 |-> <<2 * tp, 2 * tp + fp + fn>>]
    IN [label \in {ReportLabel(name, label_ids[name]) : name \in DOMAIN label_ids} |->
            Row(label[5])]

\* line 65: the label up to the character before "(label id"
LabelName(label) ==
    IF \E i \in DOMAIN label : label[i] = "(label id"
    THEN SubSeq(label, 1, (CHOOSE i \in DOMAIN label : label[i] = "(label id") - 2)
    ELSE label

\* lines 62-69: keys are tag + 'F1 ' / 'PR ' / 'R ' + label_name
_get_result_dict(tag, class_report) ==
    LET keys == {<<tag, m>> \o LabelName(label) :
                    m \in {"F1 ", "PR ", "R "}, label \in DOMAIN class_report}
        LabelOf(key) == CHOOSE label \in DOMAIN class_report : LabelName(label) = SubSeq(key, 3, Len(key))
        Value(key) ==
            LET row == class_report[LabelOf(key)]
            IN IF key[2] = "F1 " THEN RoundPct(row.f1[1], row.f1[2])
               ELSE IF key[2] = "PR " THEN RoundPct(row.precision[1], row.precision[2])
               ELSE RoundPct(row.recall[1], row.recall[2])
    IN [key \in keys |-> Value(key)]

\* lines 97-106 (graph_fold is None: no confusion matrix is plotted)
_eval_epochs_done_callback(task_name, g, label_ids) ==
    get_classification_report(g[task_name \o "_labels"], g[task_name \o "_preds"], label_ids)

\* lines 78-94: results.update(...) lets the later entry win
EpochsDoneResults(g) ==
    LET p == _get_result_dict("p", _eval_epochs_done_callback("punct", g, punct_label_ids))
        c == _get_result_dict("c", _eval_epochs_done_callback("capit", g, capit_label_ids))
    IN IF "part_sent_preds" \in DOMAIN g
       THEN LET part_sent_labels == g["part_sent_labels"]
                part_sent_preds == g["part_sent_preds"]
                t == _get_result_dict("t", _eval_epochs_done_callback("part_sent", g, part_sent_label_ids))
                equal == {i \in DOMAIN part_sent_labels : part_sent_labels[i] = part_sent_preds[i]}
            IN (<<"Part_sent_acc">> :> RoundPct(Count(equal), Len(part_sent_labels))) @@ t @@ c @@ p
       ELSE c @@ p

\* mutant: the buffers are emptied once the report is made
eval_epochs_done_callback_Clears ==
    /\ results' =
        IF {"punct_labels", "punct_preds", "capit_labels", "capit_preds"} \subseteq DOMAIN global_vars
        THEN [raised |-> "", dict |-> EpochsDoneResults(global_vars)]
        ELSE [raised |-> "KeyError", dict |-> <<>>]
    /\ lastCall' = "eval_epochs_done_callback"
    /\ global_vars' = [k \in DOMAIN global_vars |-> <<>>]
    /\ UNCHANGED <<fed, fed_sents, schemaVars>>

\* lines 71-94; reading a buffer that was never created raises KeyError
eval_epochs_done_callback ==
    /\ results' =
        IF {"punct_labels", "punct_preds", "capit_labels", "capit_preds"} \subseteq DOMAIN global_vars
        THEN [raised |-> "", dict |-> EpochsDoneResults(global_vars)]
        ELSE [raised |-> "KeyError", dict |-> <<>>]
    /\ lastCall' = "eval_epochs_done_callback"
    /\ UNCHANGED <<global_vars, fed, fed_sents, schemaVars>>

\* the caller discards the evaluation state at the end of an epoch and
\* starts the next evaluation with an empty one
clear_global_var_dict ==
    /\ lastCall = "eval_epochs_done_callback"
    /\ global_vars' = <<>>
    /\ results' = NoResults
    /\ lastCall' = "clear_global_var_dict"
    /\ fed' = <<>>
    /\ fed_sents' = <<>>
    /\ UNCHANGED schemaVars

InitEval ==
    /\ global_vars = <<>>
    /\ results = NoResults
    /\ lastCall = "none"
    /\ fed = <<>>
    /\ fed_sents = <<>>

EvalNext ==
    \/ \E rows \in SeqsUpTo(Positions, 1, MaxBatch) : \E sents \in SeqsUpTo(Sents, 0, 1) :
            \E cut \in 1 .. Len(rows) : FeedBatch(rows, cut, sents)
    \/ eval_epochs_done_callback
    \/ clear_global_var_dict

-----------------------------------------------------------------------------

Init == InitSchema /\ InitEval

Constructor(p) ==
    \/ InitCheckSplit(p)
    \/ InitGenerateRaises(p)
    \/ InitSaveEmbeddings(p)
    \/ InitReturn(p)

Next ==
    \E p \in Procs :
        \/ InitCheckSplit(p)
        \/ InitGenerateRaises(p)
        \/ InitSaveEmbeddings(p)
        \/ InitReturn(p)
        \/ \E s \in Splits : get_schema_embeddings(p, s)

Spec == Init /\ [][Next]_vars

FairSpec == Spec /\ \A p \in Procs : WF_vars(Constructor(p))

\* the schema builder is not run: one process whose constructor has no split
EvalInit ==
    /\ InitEval
    /\ InitSchema
    /\ ~is_initialized
    /\ ~overwrite_schema_emb_files
    /\ datasets = <<>>
    /\ \A path \in Paths : fs[path] = NoFile

EvalSpec == EvalInit /\ [][EvalNext]_vars

-----------------------------------------------------------------------------
(* Properties of the schema embedding cache builder *)

Listed == {datasets[i] : i \in DOMAIN datasets}

Coordinator(p) == ~(is_initialized /\ get_rank(p) # 0)

\* the path named by the external interface for a split
ExpectedPath(dataset_split) == "emb/" \o dataset_split \o "_pretrained_schema_embedding.npy"

\* C1: a process that is not the coordinator (distributed initialised and
\* rank # 0) never enters generation and never writes a split's file.
C1_OnlyCoordinatorGenerates ==
    \A p \in Procs : \A s \in Splits :
        (is_initialized /\ get_rank(p) # 0) => builder[p][s] \notin {"GENERATING", "WRITTEN"}

\* C2: with the overwrite flag set, the coordinator never skips a split; every
\* split it leaves GENERATING becomes WRITTEN with the file written anew, and
\* when its constructor has returned every listed split is WRITTEN and its
\* file exists.
C2_OverwriteRegenerates ==
    /\ [](\A p \in Procs :
            (Coordinator(p) /\ overwrite_schema_emb_files) =>
                /\ \A s \in Splits : builder[p][s] # "SKIP"
                /\ pc[p] = "constructed" =>
                     \A s \in Listed :
                        /\ builder[p][s] = "WRITTEN"
                        /\ fs[ExpectedPath(s)].exists)
    /\ [][\A p \in Procs : \A s \in Splits :
            (/\ Coordinator(p)
             /\ overwrite_schema_emb_files
             /\ builder[p][s] = "GENERATING"
             /\ builder'[p][s] # "GENERATING") =>
                /\ builder'[p][s] = "WRITTEN"
                /\ fs'[ExpectedPath(s)].exists
                /\ fs'[ExpectedPath(s)].gen > fs[ExpectedPath(s)].gen]_vars

\* C2 witness: the coordinator, under overwrite, has rewritten a file that
\* existed before (written once by the earlier run, once by the coordinator).
C2_Witness ==
    \E s \in Splits :
        /\ overwrite_schema_emb_files
        /\ Coordinator(0)
        /\ pc[0] = "constructed"
        /\ builder[0][s] = "WRITTEN"
        /\ \A q \in Procs \ {0} : builder[q][s] = "UNCHECKED"
        /\ fs[ExpectedPath(s)].gen = 2

\* C3: when the split's file exists and the overwrite flag is false, the
\* decision made for the split by any process is SKIP: the process does not
\* enter generation and the file system is left as it is.
C3_ExistingFileSkipped ==
    [][\A p \in Procs :
        (/\ pc[p] = "loop"
         /\ idx[p] <= Len(datasets)
         /\ builder'[p] # builder[p]
         /\ fs[ExpectedPath(datasets[idx[p]])].exists
         /\ ~overwrite_schema_emb_files) =>
            /\ builder'[p][datasets[idx[p]]] = "SKIP"
            /\ pc'[p] = "loop"
            /\ fs' = fs]_vars

\* C3 witness: both the coordinator and another rank have skipped a split
\* whose file is the one the earlier run left.
C3_Witness ==
    \E s \in Splits : \E q \in Procs \ {0} :
        /\ ~overwrite_schema_emb_files
        /\ is_initialized
        /\ builder[0][s] = "SKIP"
        /\ builder[q][s] = "SKIP"
        /\ fs[ExpectedPath(s)].exists
        /\ fs[ExpectedPath(s)].gen = 1

\* C4: a load of a split whose file is missing raises ValueError naming the
\* path <dir>/<split>_pretrained_schema_embedding.npy, returns no data and
\* leaves the file system unchanged; the path is the one the builder writes,
\* so a process that has written a split never gets the error for it.
C4_MissingFileRaises ==
    /\ [][\A p \in Procs : \A s \in Splits :
            (/\ pc[p] = "constructed"
             /\ ret'[p] # ret[p]
             /\ ret'[p].split = s
             /\ ~fs[ExpectedPath(s)].exists) =>
                /\ ret'[p].raised = "ValueError"
                /\ ret'[p].msg = ExpectedPath(s) \o " not found."
                /\ ret'[p].data = <<>>
                /\ fs' = fs]_vars
    /\ [](\A p \in Procs :
            ret[p].raised = "ValueError" =>
                /\ ret[p].data = <<>>
                /\ builder[p][ret[p].split] # "WRITTEN")

\* C4 witness: a load has raised for a split that no process has written.
C4_Witness ==
    \E p \in Procs :
        /\ ret[p].raised = "ValueError"
        /\ ~fs[ExpectedPath(ret[p].split)].exists

\* C5: a successful load returns a mapping whose keys are exactly the five
\* embedding kinds, each a sequence with one element per service record of
\* the file, the i-th element being the i-th record's array of that kind.
C5_LoadTransposes ==
    \A p \in Procs :
        (ret[p].split # "" /\ ret[p].raised = "") =>
            LET records == fs[ExpectedPath(ret[p].split)].records
            IN /\ DOMAIN ret[p].data = EmbKinds
               /\ \A k \in EmbKinds :
                    /\ Len(ret[p].data[k]) = Len(records)
                    /\ \A i \in 1 .. Len(records) : ret[p].data[k][i] = records[i][k]

\* C5 witness: a file of more than one service record has been loaded.
C5_Witness ==
    \E p \in Procs :
        /\ ret[p].split # ""
        /\ ret[p].raised = ""
        /\ Len(fs[ExpectedPath(ret[p].split)].records) > 1

ValidFile(dataset_split, file) ==
    /\ file.exists
    /\ Len(file.records) = NumServices(dataset_split)
    /\ \A i \in 1 .. Len(file.records) : file.records[i] = ServiceRecord(dataset_split, i)

BuilderMoves == {<<"UNCHECKED", "SKIP">>, <<"UNCHECKED", "GENERATING">>, <<"GENERATING", "WRITTEN">>}

\* C9: a constructor decides the listed splits one at a time in list order
\* and only forward (UNCHECKED -> SKIP, UNCHECKED -> GENERATING -> WRITTEN);
\* every constructor ends (returns or fails); once it has returned every
\* listed split is SKIP or WRITTEN, and on the coordinator every listed file
\* exists and a load of a listed split does not raise.
C9_BuilderForward ==
    /\ [][\A p \in Procs : \A s \in Splits :
            builder'[p][s] # builder[p][s] =>
                /\ <<builder[p][s], builder'[p][s]>> \in BuilderMoves
                /\ idx[p] \in DOMAIN datasets
                /\ s = datasets[idx[p]]]_vars
    /\ [](\A p \in Procs :
            /\ \A s \in Splits \ Listed : builder[p][s] = "UNCHECKED"
            /\ \A i \in DOMAIN datasets :
                /\ i < idx[p] => builder[p][datasets[i]] \in {"SKIP", "WRITTEN"}
                /\ i = idx[p] => builder[p][datasets[i]] \in {"UNCHECKED", "GENERATING"}
                /\ i > idx[p] => builder[p][datasets[i]] = "UNCHECKED"
            /\ pc[p] = "constructed" =>
                /\ \A s \in Listed : builder[p][s] \in {"SKIP", "WRITTEN"}
                /\ Coordinator(p) =>
                    /\ \A s \in Listed : fs[ExpectedPath(s)].exists
                    /\ ret[p].raised = "ValueError" => ret[p].split \notin Listed)
    /\ \A p \in Procs : <>(pc[p] \in {"constructed", "failed"})

\* C9 witness: the coordinator's constructor has returned with one listed
\* split skipped and another written, and has loaded a listed split.
C9_Witness ==
    \E s, t \in Listed :
        /\ pc[0] = "constructed"
        /\ builder[0][s] = "SKIP"
        /\ builder[0][t] = "WRITTEN"
        /\ ret[0].split = t
        /\ ret[0].raised = ""

-----------------------------------------------------------------------------
(* Properties of the evaluation accumulator *)

TaskBuffers == {"punct_preds", "punct_labels", "capit_preds", "capit_labels"}

\* the positions fed so far whose subtoken mask is above 0.5, in order
RealFed == SelectSeq(fed, LAMBDA r : r.subtokens_mask > 5)

\* the class with the highest score of a two-class row (the first on a tie)
Best(logits) == IF logits[1] >= logits[2] THEN 0 ELSE 1

ExpectedBuffer(k) ==
    [i \in 1 .. Len(RealFed) |->
        CASE k = "punct_preds" -> Best(RealFed[i].punct_logits)
          [] k = "capit_preds" -> Best(RealFed[i].capit_logits)
          [] k = "punct_labels" -> RealFed[i].punct_labels
          [] k = "capit_labels" -> RealFed[i].capit_labels]

IsPrefix(s, u) == Len(s) <= Len(u) /\ SubSeq(u, 1, Len(s)) = s

\* C6: the four buffers hold exactly one entry per fed position whose mask is
\* above 0.5, in position order (so they have the same length, the number of
\* such positions), and a call of eval_iter_callback only appends to them.
C6_MaskedAccumulation ==
    /\ [](global_vars # <<>> =>
            \A k \in TaskBuffers :
                /\ k \in DOMAIN global_vars
                /\ global_vars[k] = ExpectedBuffer(k))
    /\ [][lastCall' = "eval_iter_callback" =>
            \A k \in TaskBuffers :
                k \in DOMAIN global_vars =>
                    /\ k \in DOMAIN global_vars'
                    /\ IsPrefix(global_vars[k], global_vars'[k])]_vars

\* C6 witness: positions with mask 0.5 and with mask above 0.5 have been fed
\* and the buffers hold two entries.
C6_Witness ==
    /\ lastCall = "eval_iter_callback"
    /\ \E i \in DOMAIN fed : fed[i].subtokens_mask = 5
    /\ \E i \in DOMAIN fed : fed[i].subtokens_mask = 0
    /\ Len(RealFed) = 1
    /\ Len(global_vars["punct_preds"]) = 1

\* C7 as stated: once eval_epochs_done_callback has returned, the per-task
\* buffers no longer hold the entries of the finished epoch.
C7_DiscardedAtEpochEnd ==
    (lastCall = "eval_epochs_done_callback" /\ results.raised = "") =>
        \A k \in DOMAIN global_vars : global_vars[k] = <<>>

\* recall of class c of the punctuation task over every position fed since
\* the state was created, in hundredths of a percent
PunctRecallOfFed(c) ==
    LET of_c == {i \in DOMAIN RealFed : RealFed[i].punct_labels = c}
        hit == {i \in of_c : Best(RealFed[i].punct_logits) = c}
    IN IF of_c = {} THEN 0 ELSE (20000 * Cardinality(hit) + Cardinality(of_c)) \div (2 * Cardinality(of_c))

\* C7 as amended: the state exists from the first batch on (before it,
\* eval_epochs_done_callback raises KeyError); eval_epochs_done_callback
\* leaves the whole state as it is, and its report covers every position fed
\* since the state was created, whatever reports were made in between.
C7_StateKeptAtEpochEnd ==
    /\ [](global_vars = <<>> <=> fed = <<>>)
    /\ [](lastCall = "eval_epochs_done_callback" =>
            IF fed = <<>>
            THEN results.raised = "KeyError"
            ELSE /\ results.raised = ""
                 /\ results.dict[<<"p", "R ", "O">>] = PunctRecallOfFed(0)
                 /\ results.dict[<<"p", "R ", ",">>] = PunctRecallOfFed(1))
    /\ [][lastCall' = "eval_epochs_done_callback" => global_vars' = global_vars]_vars

\* C7 witness: a report has been made and the buffers still hold entries.
C7_Witness ==
    /\ lastCall = "eval_epochs_done_callback"
    /\ results.raised = ""
    /\ Len(global_vars["punct_preds"]) >= 2
    /\ results.dict[<<"p", "PR ", "O">>] = 5000

HasPartSent == "part_sent_preds" \in DOMAIN global_vars

\* C10: the partial-sentence buffers exist exactly when a batch with
\* part_sent_logits has been fed; they hold one entry per sentence fed, while
\* the punctuation and capitalization buffers hold one entry per unmasked
\* position; the results have 't' entries and 'Part_sent_acc' exactly when
\* part_sent_preds exists, and otherwise only 'p' and 'c' entries.
C10_PartSentOwnBuffers ==
    /\ HasPartSent <=> fed_sents # <<>>
    /\ "part_sent_labels" \in DOMAIN global_vars <=> fed_sents # <<>>
    /\ HasPartSent =>
        /\ global_vars["part_sent_preds"] = [i \in DOMAIN fed_sents |-> Best(fed_sents[i].part_sent_logits)]
        /\ global_vars["part_sent_labels"] = [i \in DOMAIN fed_sents |-> fed_sents[i].part_sent_labels]
    /\ global_vars # <<>> =>
        \A k \in TaskBuffers : Len(global_vars[k]) = Len(RealFed)
    /\ (lastCall = "eval_epochs_done_callback" /\ results.raised = "") =>
        /\ (\E key \in DOMAIN results.dict : key[1] = "t") <=> HasPartSent
        /\ <<"Part_sent_acc">> \in DOMAIN results.dict <=> HasPartSent
        /\ \A key \in DOMAIN results.dict :
            \/ key[1] \in {"p", "c"}
            \/ HasPartSent /\ key[1] \in {"t", "Part_sent_acc"}
        /\ \E key \in DOMAIN results.dict : key[1] = "p"
        /\ \E key \in DOMAIN results.dict : key[1] = "c"

\* C10 witness: partial-sentence rows were fed with some batches and not
\* with others, and the report has the partial-sentence accuracy.
C10_Witness ==
    /\ lastCall = "eval_epochs_done_callback"
    /\ HasPartSent
    /\ Len(fed_sents) = 2
    /\ Len(RealFed) = 3
    /\ results.dict[<<"Part_sent_acc">>] = 5000

====
